---- MODULE Spec2Model ----
(***************************************************************************)
(* State-machine model of the Slack processor                              *)
(* (src/src/slack_processor/application.py, app_config.py).                *)
(*                                                                         *)
(* Time is counted in clock units; UnitsPerMinute units make one minute,   *)
(* so that "strictly less than N minutes" and "at least N minutes" differ  *)
(* on readings that fall between whole minutes.                            *)
(***************************************************************************)
EXTENDS Integers, Sequences, FiniteSets, TLC

VARIABLES
    config,   \* SlackProcessorConfig values of the deployment
    now,      \* wall clock, datetime.now(timezone.utc)
    conn,     \* what api.get_agent_connection(agent_id) returns
    tags,     \* the processor's tag store (get_tag / set_tag)
    last,     \* observation of the most recent handler invocation
    episode,  \* offline alerts handed to the sink in the current offline episode
    fired,    \* per threshold rule, the time of the tick of its latest alert
    inv,      \* schedule ticks in flight, when they are followed call by call
    sink      \* what the webhook received from ticks followed call by call

vars == <<config, now, conn, tags, last, episode, fired, inv, sink>>

----------------------------------------------------------------------------
(* Bounds of the model *)

MaxTime == 6          \* the clock stops advancing here
MaxDrift == 1         \* longest time one awaited call takes inside a handler
MaxCount == 3         \* handlers stop being invoked once a counter reaches this
MaxRules == 2         \* longest tag_thresholds list
MaxStepTime == 3      \* the same, for ticks followed call by call
UnitsPerMinute == 2   \* clock resolution

----------------------------------------------------------------------------
(* Values held by tags, connection info and tag_values *)

None == [kind |-> "none", v |-> 0]
Bool(b) == [kind |-> "bool", v |-> IF b THEN 1 ELSE 0]
Num(n) == [kind |-> "num", v |-> n]
\* a str holding an ISO-8601 timestamp / a decimal number / anything else
IsoStr(t) == [kind |-> "isostr", v |-> t]
NumStr(n) == [kind |-> "numstr", v |-> n]
Junk == [kind |-> "junk", v |-> 0]

\* Python truth value of a stored value (`if last_online:`, `if not alert_sent`)
Truthy(x) ==
    CASE x.kind = "none" -> FALSE
      [] x.kind = "bool" -> x.v = 1
      [] x.kind = "num" -> x.v # 0
      [] OTHER -> TRUE

\* datetime.now(timezone.utc).isoformat()
isoformat(t) == IsoStr(t)

\* datetime.fromisoformat(x.replace("Z", "+00:00")) if isinstance(x, str)
\* else datetime.fromtimestamp(x, timezone.utc)
ParseTimestamp(x) == x.v

\* (later - earlier).total_seconds() / 60 < minutes
MinutesLess(earlier, later, minutes) ==
    (later - earlier) < minutes * UnitsPerMinute

----------------------------------------------------------------------------
(* Tag store *)

Tags == {"a", "b"}

\* variant: one cooldown tag for all rules
cooldown_key_Shared(tag_name) == "threshold_cooldown_a"

cooldown_key(tag_name) == "threshold_cooldown_" \o tag_name

StatNames == {"channel_alerts_sent", "offline_alerts_sent", "threshold_alerts_sent"}

stat_last_key(stat_name) == stat_name \o "_last"

Keys ==
    {"offline_alert_sent", "last_offline_reminder", "last_error", "last_error_at"}
    \cup {cooldown_key(t) : t \in Tags}
    \cup StatNames \cup {stat_last_key(s) : s \in StatNames}

\* self.get_tag(key, default): the default stands for a tag that holds nothing
get_tag(tg, key, default) == IF tg[key] = None THEN default ELSE tg[key]

\* self.set_tag(key, value)
set_tag(tg, key, value) == [tg EXCEPT ![key] = value]

----------------------------------------------------------------------------
(* Slack delivery *)

SendOutcomes == {"ok", "http_error", "timeout", "request_exception"}

\* the text handed to _update_error for a failed delivery
ErrorText(outcome) ==
    CASE outcome = "http_error" -> "Slack API error"
      [] outcome = "timeout" -> "Slack request timeout"
      [] OTHER -> "Slack request failed"

\* variant: the time of the error is not recorded
_update_error_TextOnly(tg, outcome, t) ==
    set_tag(tg, "last_error", [kind |-> ErrorText(outcome), v |-> 0])

\* set last_error and last_error_at
_update_error(tg, outcome, t) ==
    set_tag(set_tag(tg, "last_error", [kind |-> ErrorText(outcome), v |-> 0]),
            "last_error_at", isoformat(t))

\* variant: a failed delivery raises out of _send_slack_message
SendReturns_OnSuccessOnly(outcome) == outcome = "ok"

\* the try/except around requests.post: every delivery outcome is handled
\* inside _send_slack_message, which then returns normally
SendReturns(outcome) == outcome \in SendOutcomes

\* w is the state a handler threads through its statements:
\*   tags, the alerts handed to requests.post, whether an exception escaped.
\* Both handlers return before calling it when no webhook URL is configured,
\* so its own "no webhook" return is never taken.
_send_slack_message(w, title, message, rule, t, outcome) ==
    [w EXCEPT
        !.alerts = Append(@, [title |-> title, message |-> message,
                              rule |-> rule, at |-> t, outcome |-> outcome]),
        !.tags = IF outcome = "ok" THEN @ ELSE _update_error(@, outcome, t),
        !.raised = ~SendReturns(outcome)]

\* variant: only the time of the increment is written
_increment_stat_LastOnly(tg, stat_name, t) ==
    set_tag(tg, stat_last_key(stat_name), isoformat(t))

\* counter + 1 and the time of the increment
_increment_stat(tg, stat_name, t) ==
    set_tag(set_tag(tg, stat_name, Num(get_tag(tg, stat_name, Num(0)).v + 1)),
            stat_last_key(stat_name), isoformat(t))

----------------------------------------------------------------------------
(* Offline monitoring: _check_offline_status *)

\* variant: the reminder time is left in place
ClearOfflineTracking_FlagOnly(tg) ==
    set_tag(tg, "offline_alert_sent", Bool(FALSE))

\* variant: only the reminder time is cleared
ClearOfflineTracking_ReminderOnly(tg) ==
    set_tag(tg, "last_offline_reminder", None)

\* is_online: clear any offline tracking
ClearOfflineTracking(tg) ==
    set_tag(set_tag(tg, "offline_alert_sent", Bool(FALSE)),
            "last_offline_reminder", None)

\* variant: the duration is compared without converting it to minutes
Debounced_Unconverted(last_online, t, threshold_minutes) ==
    /\ Truthy(last_online)
    /\ (t - ParseTimestamp(last_online)) * UnitsPerMinute < threshold_minutes

\* variant: a missing last-online reading counts as "offline only just now"
Debounced_MissingIsRecent(last_online, t, threshold_minutes) ==
    \/ ~Truthy(last_online)
    \/ MinutesLess(ParseTimestamp(last_online), t, threshold_minutes)

\* the debounce test: a last-online reading exists and the device has been
\* offline for less than offline_threshold_minutes at clock reading t
Debounced(last_online, t, threshold_minutes) ==
    /\ Truthy(last_online)
    /\ MinutesLess(ParseTimestamp(last_online), t, threshold_minutes)

\* variant: the interval must be exceeded, not just reached
ReminderDue_Strict(reminder_interval, last_reminder, t) ==
    /\ reminder_interval > 0
    /\ Truthy(last_reminder)
    /\ ~MinutesLess(ParseTimestamp(last_reminder), t - 1, reminder_interval)

\* variant: an interval of 0 does not disable reminders
ReminderDue_NoDisable(reminder_interval, last_reminder, t) ==
    /\ Truthy(last_reminder)
    /\ ~MinutesLess(ParseTimestamp(last_reminder), t, reminder_interval)

\* the elif branch: reminders are enabled, a reminder time is stored and at
\* least reminder_interval minutes have passed since it at clock reading t
ReminderDue(reminder_interval, last_reminder, t) ==
    /\ reminder_interval > 0
    /\ Truthy(last_reminder)
    /\ ~MinutesLess(ParseTimestamp(last_reminder), t, reminder_interval)

\* variant: a flag that was reset to False counts as set
OfflineMessage_NoRearm(alert_sent, reminder_interval, last_reminder, t) ==
    IF alert_sent = None THEN "has gone offline"
    ELSE IF ReminderDue(reminder_interval, last_reminder, t) THEN "is still offline"
    ELSE ""

\* variant: the reminder branch is missing
OfflineMessage_RemindersOff(alert_sent, reminder_interval, last_reminder, t) ==
    IF ~Truthy(alert_sent) THEN "has gone offline" ELSE ""

\* should_send and message; "" stands for should_send = False
OfflineMessage(alert_sent, reminder_interval, last_reminder, t) ==
    IF ~Truthy(alert_sent) THEN "has gone offline"
    ELSE IF ReminderDue(reminder_interval, last_reminder, t) THEN "is still offline"
    ELSE ""

\* variant: the alert is counted but offline_alert_sent is not set
SendOfflineAlert_NoFlag(w, message, tSend, tWrite, outcome) ==
    LET w1 == _send_slack_message(w, "Device Offline Alert", message, 0, tSend, outcome)
    IN  IF w1.raised THEN w1
        ELSE [w1 EXCEPT !.tags =
                _increment_stat(
                    set_tag(@, "last_offline_reminder", isoformat(tWrite)),
                    "offline_alerts_sent", tWrite)]

\* if should_send: send, then record the alert
SendOfflineAlert(w, message, tSend, tWrite, outcome) ==
    LET w1 == _send_slack_message(w, "Device Offline Alert", message, 0, tSend, outcome)
    IN  IF w1.raised THEN w1
        ELSE [w1 EXCEPT !.tags =
                _increment_stat(
                    set_tag(set_tag(@, "offline_alert_sent", Bool(TRUE)),
                            "last_offline_reminder", isoformat(tWrite)),
                    "offline_alerts_sent", tWrite)]

\* variant: the exception of the lookup is not caught
LookupFailed_Raises(w) == [w EXCEPT !.offline = "lookup_failed", !.raised = TRUE]

\* except Exception: log a warning and return
LookupFailed(w) == [w EXCEPT !.offline = "lookup_failed"]

\* lookup_ok = FALSE: api.get_agent_connection raised.
\* t123, t148, t161: the clock readings of the three datetime.now() calls.
_check_offline_status(w, cfg, lookup_ok, connection_info, t123, t148, t161, outcome) ==
    IF ~lookup_ok THEN LookupFailed(w)
    ELSE IF connection_info.determination = "online"
    THEN [w EXCEPT !.tags = ClearOfflineTracking(@), !.offline = "online"]
    ELSE IF Debounced(connection_info.online_at, t123, cfg.offline_threshold_minutes)
    THEN [w EXCEPT !.offline = "debounced"]
    ELSE LET alert_sent == get_tag(w.tags, "offline_alert_sent", Bool(FALSE))
             last_reminder == get_tag(w.tags, "last_offline_reminder", None)
             message == OfflineMessage(alert_sent,
                            cfg.offline_reminder_interval_minutes, last_reminder, t148)
         IN  IF message = "" THEN [w EXCEPT !.offline = "silent"]
             ELSE SendOfflineAlert([w EXCEPT !.offline = "alerted"],
                                   message, t148, t161, outcome)

----------------------------------------------------------------------------
(* Tag thresholds: _check_tag_thresholds *)

\* A template is the set of placeholder names it mentions; str.format raises
\* KeyError when one of them is not among the keyword arguments.
ThresholdPlaceholders == {"tag", "value", "limit", "device"}
ChannelPlaceholders == {"channel", "data", "device"}
FormatRaises(template, kwargs) == ~(template \subseteq kwargs)

\* float(value) succeeds on numbers, bools and numeric strings; TypeError and
\* ValueError are caught and the rule skipped
\* variant: a value that does not parse is taken as a number
IsNumeric_Lenient(raw) == TRUE

IsNumeric(raw) == raw.kind \in {"num", "numstr", "bool"}
Float(raw) == raw.v

\* variant: the cooldown is compared without converting it to minutes
InCooldown_Unconverted(last_alert, t, cooldown_minutes) ==
    /\ Truthy(last_alert)
    /\ (t - ParseTimestamp(last_alert)) * UnitsPerMinute < cooldown_minutes

\* the cooldown test at clock reading t (the `now` taken before the loop)
InCooldown(last_alert, t, cooldown_minutes) ==
    /\ Truthy(last_alert)
    /\ MinutesLess(ParseTimestamp(last_alert), t, cooldown_minutes)

UpperExceeded(upper_limit, value) == upper_limit # None /\ value > upper_limit.v
LowerExceeded(lower_limit, value) == lower_limit # None /\ value < lower_limit.v

\* variant: the upper branch does not end the iteration
LimitAlerts_NoContinue(upper_limit, lower_limit, value) ==
    (IF upper_limit # None /\ value > upper_limit.v
     THEN <<"Threshold Alert: High Value">> ELSE <<>>)
    \o (IF lower_limit # None /\ value < lower_limit.v
        THEN <<"Threshold Alert: Low Value">> ELSE <<>>)

\* the titles of the alerts one rule raises for one value: the upper check
\* ends the iteration (continue), so the lower check runs only if it did not fire
LimitAlerts(upper_limit, lower_limit, value) ==
    IF UpperExceeded(upper_limit, value) THEN <<"Threshold Alert: High Value">>
    ELSE IF LowerExceeded(lower_limit, value) THEN <<"Threshold Alert: Low Value">>
    ELSE <<>>

\* format the message, send it, write the cooldown, count it
FireThreshold(w, i, rule, title, t, outcome) ==
    IF FormatRaises(rule.alert_message, ThresholdPlaceholders)
    THEN [w EXCEPT !.raised = TRUE]
    ELSE LET w1 == _send_slack_message(w, title, "threshold", i, t, outcome)
         IN  IF w1.raised THEN w1
             ELSE [w1 EXCEPT !.tags =
                     _increment_stat(
                         set_tag(@, cooldown_key(rule.tag_name), isoformat(t)),
                         "threshold_alerts_sent", t)]

RECURSIVE FireAll(_, _, _, _, _, _)
FireAll(w, i, rule, titles, t, outcome) ==
    IF titles = <<>> \/ w.raised THEN w
    ELSE FireAll(FireThreshold(w, i, rule, Head(titles), t, outcome),
                 i, rule, Tail(titles), t, outcome)

\* one iteration of `for threshold_config in thresholds`; the step it ends at
\* is appended to w.rules
CheckRule(w, i, rule, tag_values, t, outcome) ==
    IF rule.tag_name = "" THEN [w EXCEPT !.rules = Append(@, "no_tag_name")]
    ELSE IF tag_values[rule.tag_name] = None
    THEN [w EXCEPT !.rules = Append(@, "tag_not_found")]
    ELSE IF ~IsNumeric(tag_values[rule.tag_name])
    THEN [w EXCEPT !.rules = Append(@, "not_numeric")]
    ELSE IF InCooldown(get_tag(w.tags, cooldown_key(rule.tag_name), None),
                       t, rule.cooldown_minutes)
    THEN [w EXCEPT !.rules = Append(@, "cooldown")]
    ELSE LET titles == LimitAlerts(rule.upper_limit, rule.lower_limit,
                                   Float(tag_values[rule.tag_name]))
             w1 == FireAll(w, i, rule, titles, t, outcome)
         IN  [w1 EXCEPT !.rules = Append(@,
                 IF w1.raised THEN "raised"
                 ELSE IF titles = <<>> THEN "within_limits" ELSE "alerted")]

RECURSIVE CheckRules(_, _, _, _, _, _)
CheckRules(w, i, thresholds, tag_values, t, outcomes) ==
    IF i > Len(thresholds) \/ w.raised THEN w
    ELSE CheckRules(CheckRule(w, i, thresholds[i], tag_values, t, outcomes[i]),
                    i + 1, thresholds, tag_values, t, outcomes)

\* fetch_ok = FALSE: fetching the tag_values channel raised
_check_tag_thresholds(w, cfg, fetch_ok, tag_values, t182, outcomes) ==
    IF cfg.tag_thresholds = <<>> THEN [w EXCEPT !.threshold = "no_thresholds"]
    ELSE IF ~fetch_ok THEN [w EXCEPT !.threshold = "fetch_failed"]
    ELSE CheckRules([w EXCEPT !.threshold = "checked"], 1,
                    cfg.tag_thresholds, tag_values, t182, outcomes)

----------------------------------------------------------------------------
(* Handlers *)

\* the state a handler starts from
Start(tg) ==
    [tags |-> tg, alerts |-> <<>>, raised |-> FALSE,
     offline |-> "not_run", threshold |-> "not_run", rules |-> <<>>]

\* in: what the run reads from outside: the lookup and fetch results, the
\* clock readings, the outcome of each delivery
on_schedule(w, cfg, in) ==
    IF ~cfg.slack_webhook_url THEN w
    ELSE LET w1 == IF cfg.offline_alerts_enabled
                   THEN _check_offline_status(w, cfg, in.lookup_ok, in.connection_info,
                                              in.t123, in.t148, in.t161, in.outcome)
                   ELSE w
         IN  IF cfg.threshold_alerts_enabled /\ ~w1.raised
             THEN _check_tag_thresholds(w1, cfg, in.fetch_ok, in.tag_values,
                                        in.t182, in.outcomes)
             ELSE w1

\* variant: the webhook URL is not checked
on_message_create_NoWebhookCheck(w, cfg, t, tStat, outcome) ==
    IF ~cfg.channel_alerts_enabled THEN w
    ELSE IF FormatRaises(cfg.channel_message_template, ChannelPlaceholders)
    THEN [w EXCEPT !.raised = TRUE]
    ELSE LET w1 == _send_slack_message(w, "Channel Alert", "channel", 0, t, outcome)
         IN  [w1 EXCEPT !.tags = _increment_stat(@, "channel_alerts_sent", tStat)]

on_message_create(w, cfg, t, tStat, outcome) ==
    IF ~cfg.channel_alerts_enabled THEN w
    ELSE IF ~cfg.slack_webhook_url THEN w
    ELSE IF FormatRaises(cfg.channel_message_template, ChannelPlaceholders)
    THEN [w EXCEPT !.raised = TRUE]
    ELSE LET w1 == _send_slack_message(w, "Channel Alert", "channel", 0, t, outcome)
         IN  IF w1.raised THEN w1
             ELSE [w1 EXCEPT !.tags = _increment_stat(@, "channel_alerts_sent", tStat)]

----------------------------------------------------------------------------
(* Inputs *)

RawValues == {None, Junk, Num(2), NumStr(0)}
NoValues == [t \in Tags |-> None]
NoConn == [determination |-> "none", online_at |-> None]
Online == [determination |-> "online", online_at |-> None]
AllOk == [i \in 1..MaxRules |-> "ok"]
NeverFired == [i \in 1..MaxRules |-> 0]

\* the keys whose value before the invocation is kept in `last`
Tracked == {"offline_alert_sent", "last_offline_reminder", "threshold_alerts_sent"}
               \cup {cooldown_key(t) : t \in Tags}

Counters(tg) == {get_tag(tg, s, Num(0)).v : s \in StatNames}

OfflineAlerts(alerts) == SelectSeq(alerts, LAMBDA a : a.title = "Device Offline Alert")

\* the slots for schedule ticks in flight
Invocations == {1, 2}

\* a slot with no tick in it; otherwise pc is the awaited call the tick is at,
\* and the other fields are the local variables of on_schedule's callees
Idle ==
    [pc |-> "idle", now |-> 0, i |-> 0, alert_sent |-> None, last_reminder |-> None,
     message |-> "", tag_values |-> NoValues, title |-> ""]

\* nothing received yet: the "has gone offline" alerts of the current offline
\* episode, per tag the tick times of its latest two threshold alerts, and
\* whether a tick ever started while another was in flight
NoSink ==
    [gone_offline |-> 0, window |-> [t \in Tags |-> <<0, 0>>], overlapped |-> FALSE]

\* `last` when the latest step was not a handler invocation
NoInvocation ==
    [op |-> "none", pre |-> [k \in Tracked |-> None],
     conn |-> NoConn, t123 |-> 0, t148 |-> 0, t161 |-> 0, t182 |-> 0,
     tag_values |-> NoValues, fired |-> NeverFired,
     offline |-> "not_run", threshold |-> "not_run",
     rules |-> <<>>, alerts |-> <<>>, raised |-> FALSE]

----------------------------------------------------------------------------
(* Actions *)

\* a schedule tick runs on_schedule to completion; an input is drawn only
\* when the run reads it, and an awaited call takes time only when it is made
OnSchedule ==
    LET w0 == Start(tags)
        runsOffline == config.slack_webhook_url /\ config.offline_alerts_enabled
        runsThreshold == config.slack_webhook_url /\ config.threshold_alerts_enabled
                            /\ config.tag_thresholds # <<>>
        read == {config.tag_thresholds[i].tag_name : i \in 1..Len(config.tag_thresholds)}
        Input(lookup_ok, t148, t161, outcome, fetch_ok, tag_values, outcomes) ==
            [lookup_ok |-> lookup_ok, connection_info |-> conn,
             t123 |-> now, t148 |-> t148, t161 |-> t161, outcome |-> outcome,
             fetch_ok |-> fetch_ok, tag_values |-> tag_values,
             t182 |-> t161, outcomes |-> outcomes]
    IN
    \E lookup_ok \in IF runsOffline THEN BOOLEAN ELSE {TRUE} :
    \E p1 \in {on_schedule(w0, config,
                  Input(lookup_ok, now, now, "ok", FALSE, NoValues, AllOk))} :
    \E dG \in IF p1.offline \in {"silent", "alerted"} THEN 0..MaxDrift ELSE {0} :
    \E p2 \in {on_schedule(w0, config,
                  Input(lookup_ok, now + dG, now + dG, "ok", FALSE, NoValues, AllOk))} :
    \E dS \in IF p2.offline = "alerted" THEN 0..MaxDrift ELSE {0} :
    \E outcome \in IF p2.offline = "alerted" THEN SendOutcomes ELSE {"ok"} :
    \E fetch_ok \in IF runsThreshold THEN BOOLEAN ELSE {TRUE} :
    \E tag_values \in IF runsThreshold /\ fetch_ok
                      THEN {f \in [Tags -> RawValues] :
                               \A t \in Tags \ read : f[t] = None}
                      ELSE {NoValues} :
    \E p3 \in {on_schedule(w0, config,
                  Input(lookup_ok, now + dG, now + dG + dS, outcome,
                        fetch_ok, tag_values, AllOk))} :
    \E outcomes \in {f \in [1..MaxRules -> SendOutcomes] :
                        \A i \in 1..MaxRules :
                            (\A k \in 1..Len(p3.alerts) : p3.alerts[k].rule # i)
                                => f[i] = "ok"} :
    \E in \in {Input(lookup_ok, now + dG, now + dG + dS, outcome,
                     fetch_ok, tag_values, outcomes)} :
    \E w \in {on_schedule(w0, config, in)} :
    \E sent \in {OfflineAlerts(w.alerts)} :
        /\ in.t182 <= MaxTime
        /\ \A c \in Counters(w.tags) : c <= MaxCount
        /\ tags' = w.tags
        /\ now' = in.t182
        /\ last' = [op |-> "on_schedule",
                    pre |-> [k \in Tracked |-> tags[k]],
                    conn |-> IF w.offline \in {"not_run", "lookup_failed"}
                             THEN NoConn ELSE conn,
                    t123 |-> IF w.offline \in {"debounced", "silent", "alerted"}
                                /\ Truthy(conn.online_at) THEN in.t123 ELSE 0,
                    t148 |-> IF w.offline \in {"silent", "alerted"} THEN in.t148 ELSE 0,
                    t161 |-> IF w.offline = "alerted" THEN in.t161 ELSE 0,
                    t182 |-> IF w.threshold = "checked" THEN in.t182 ELSE 0,
                    tag_values |-> tag_values, fired |-> fired,
                    offline |-> w.offline, threshold |-> w.threshold,
                    rules |-> w.rules, alerts |-> w.alerts, raised |-> w.raised]
        /\ episode' = IF sent = <<>> THEN episode
                      ELSE [alerts |-> episode.alerts + Len(sent),
                            last_at |-> sent[Len(sent)].at,
                            prev_at |-> IF Len(sent) > 1 THEN sent[Len(sent) - 1].at
                                        ELSE episode.last_at]
        /\ fired' = [i \in 1..MaxRules |->
                        IF \E k \in 1..Len(w.alerts) : w.alerts[k].rule = i
                        THEN in.t182 ELSE fired[i]]
        /\ UNCHANGED <<config, conn, inv, sink>>

\* a message arrives on a subscribed channel
OnMessageCreate ==
    LET w0 == Start(tags)
        p == on_message_create(w0, config, now, now, "ok")
    IN
    \E outcome \in IF p.alerts # <<>> THEN SendOutcomes ELSE {"ok"} :
    \E dS \in IF p.alerts # <<>> THEN 0..MaxDrift ELSE {0} :
    LET w == on_message_create(w0, config, now, now + dS, outcome)
    IN  /\ now + dS <= MaxTime
        /\ \A c \in Counters(w.tags) : c <= MaxCount
        /\ tags' = w.tags
        /\ now' = now + dS
        /\ last' = [op |-> "on_message_create",
                    pre |-> [k \in Tracked |-> tags[k]],
                    conn |-> NoConn, t123 |-> 0, t148 |-> 0, t161 |-> 0, t182 |-> 0,
                    tag_values |-> NoValues, fired |-> fired,
                    offline |-> w.offline, threshold |-> w.threshold,
                    rules |-> w.rules, alerts |-> w.alerts, raised |-> w.raised]
        /\ UNCHANGED <<config, conn, episode, fired, inv, sink>>

\* time passes between invocations
AdvanceTo(limit) ==
    /\ now < limit
    /\ now' = now + 1
    /\ last' = NoInvocation
    /\ UNCHANGED <<config, conn, tags, episode, fired, inv, sink>>

Advance == AdvanceTo(MaxTime)

\* the device drops its connection; the platform reports the time it was last
\* online as an epoch number, as an ISO string, or not at all
DeviceGoesOffline ==
    /\ conn.determination = "online"
    /\ \E online_at \in {None, Num(now), IsoStr(now)} :
          conn' = [determination |-> "offline", online_at |-> online_at]
    /\ last' = NoInvocation
    /\ UNCHANGED <<config, now, tags, episode, fired, inv, sink>>

\* the device reconnects: a new offline episode can begin (online_at is not
\* used by the processor while the device is online)
DeviceComesOnline ==
    /\ conn.determination # "online"
    /\ conn' = Online
    /\ episode' = [alerts |-> 0, last_at |-> 0, prev_at |-> 0]
    /\ sink' = [sink EXCEPT !.gone_offline = 0]
    /\ last' = NoInvocation
    /\ UNCHANGED <<config, now, tags, fired, inv>>

----------------------------------------------------------------------------
(* Deployments *)

DefaultThresholdTemplate == {"tag", "value", "limit", "device"}
DefaultChannelTemplate == {"channel", "device", "data"}

ThresholdMinutes == {1}
ReminderIntervals == {0, 1}

Rule(tn, ul, ll, am, cd) ==
    [tag_name |-> tn, upper_limit |-> ul, lower_limit |-> ll,
     alert_message |-> am, cooldown_minutes |-> cd]

\* limits that cross (upper below lower), one-minute cooldown
RuleA == Rule("a", Num(1), Num(3), DefaultThresholdTemplate, 1)
\* a second rule on the same tag, no cooldown
RuleA0 == Rule("a", Num(1), None, DefaultThresholdTemplate, 0)
\* a lower limit only, on another tag
RuleB == Rule("b", None, Num(1), DefaultThresholdTemplate, 1)
\* no tag name
RuleNoName == Rule("", Num(1), None, DefaultThresholdTemplate, 1)
\* a template with an unknown placeholder
RuleBadTemplate == Rule("b", Num(1), Num(1), {"tag", "unit"}, 1)

RuleLists ==
    { <<>>, <<RuleA>>, <<RuleA, RuleB>>, <<RuleB, RuleA>>, <<RuleA, RuleA0>>,
      <<RuleA0, RuleA>>, <<RuleNoName, RuleB>>, <<RuleBadTemplate, RuleA>> }

BaseConfig ==
    [slack_webhook_url |-> TRUE,
     channel_alerts_enabled |-> TRUE,
     channel_message_template |-> DefaultChannelTemplate,
     offline_alerts_enabled |-> FALSE,
     offline_threshold_minutes |-> 1,
     offline_reminder_interval_minutes |-> 1,
     threshold_alerts_enabled |-> FALSE,
     tag_thresholds |-> <<>>]

\* deployments that monitor the connection only
OfflineConfigs ==
    {[BaseConfig EXCEPT !.slack_webhook_url = wh, !.offline_alerts_enabled = en,
                        !.offline_threshold_minutes = th,
                        !.offline_reminder_interval_minutes = ri] :
        wh \in BOOLEAN, en \in BOOLEAN, th \in ThresholdMinutes, ri \in ReminderIntervals}

\* deployments that monitor tag thresholds only
ThresholdConfigs ==
    {[BaseConfig EXCEPT !.threshold_alerts_enabled = TRUE, !.tag_thresholds = rl] :
        rl \in RuleLists}

InitWith(configs, connections) ==
    /\ config \in configs
    /\ now = 1
    /\ conn \in connections
    /\ tags = [k \in Keys |-> None]
    /\ last = NoInvocation
    /\ episode = [alerts |-> 0, last_at |-> 0, prev_at |-> 0]
    /\ fired = NeverFired
    /\ inv = [p \in Invocations |-> Idle]
    /\ sink = NoSink

Init == InitWith(OfflineConfigs, {Online})

Next ==
    \/ OnSchedule
    \/ Advance
    \/ DeviceGoesOffline
    \/ DeviceComesOnline

Spec == Init /\ [][Next]_vars

InitThreshold == InitWith(ThresholdConfigs, {Online})

NextThreshold ==
    \/ OnSchedule
    \/ Advance

SpecThreshold == InitThreshold /\ [][NextThreshold]_vars

\* deployments that monitor both the connection and tag thresholds
BothConfigs ==
    {[BaseConfig EXCEPT !.offline_alerts_enabled = TRUE,
                        !.threshold_alerts_enabled = TRUE, !.tag_thresholds = rl] :
        rl \in {<<RuleA>>}}

\* the device is online, or went offline at the start and stays offline
InitBoth ==
    InitWith(BothConfigs, {Online, [determination |-> "offline", online_at |-> IsoStr(1)]})

SpecBoth == InitBoth /\ [][NextThreshold]_vars

\* deployments that receive channel messages next to one scheduled check:
\* channel alerts on or off, with or without a webhook, and a channel template
\* with an unknown placeholder
MessageConfigs ==
    {[BaseConfig EXCEPT !.offline_alerts_enabled = m = "offline",
                        !.threshold_alerts_enabled = m = "threshold",
                        !.tag_thresholds = IF m = "threshold" THEN <<RuleA>> ELSE <<>>,
                        !.channel_alerts_enabled = c[1],
                        !.slack_webhook_url = c[2],
                        !.channel_message_template = c[3]] :
        m \in {"offline", "threshold"},
        c \in {<<TRUE, TRUE, DefaultChannelTemplate>>,
               <<TRUE, TRUE, {"channel", "payload"}>>,
               <<FALSE, TRUE, DefaultChannelTemplate>>,
               <<TRUE, FALSE, DefaultChannelTemplate>>}}

\* the device went offline at the start and stays offline
InitMessage ==
    InitWith(MessageConfigs, {[determination |-> "offline", online_at |-> IsoStr(1)]})

NextMessage ==
    \/ OnSchedule
    \/ OnMessageCreate
    \/ Advance

SpecMessage == InitMessage /\ [][NextMessage]_vars

----------------------------------------------------------------------------
(* Schedule ticks followed call by call: each awaited call of on_schedule  *)
(* is one step, so that ticks can overlap or be cut short.  The three      *)
(* store operations of _increment_stat are taken as one step.              *)

InFlight == {q \in Invocations : inv[q].pc # "idle"}

Outside == <<config, now, conn, last, episode, fired>>

\* on_schedule after _check_offline_status has returned
AfterOffline(l) ==
    IF config.threshold_alerts_enabled THEN [Idle EXCEPT !.pc = "fetch"] ELSE Idle

\* the loop head: the first rule from index i on that has a tag name and a
\* numeric value (the skipped ones `continue` without an awaited call); 0 when
\* the list is exhausted
RECURSIVE NextRule(_, _, _)
NextRule(thresholds, tag_values, i) ==
    IF i > Len(thresholds) THEN 0
    ELSE IF \/ thresholds[i].tag_name = ""
            \/ tag_values[thresholds[i].tag_name] = None
            \/ ~IsNumeric(tag_values[thresholds[i].tag_name])
    THEN NextRule(thresholds, tag_values, i + 1)
    ELSE i

\* go on with the next rule after rule l.i, or return
ToNextRule(l) ==
    LET i == NextRule(config.tag_thresholds, l.tag_values, l.i + 1)
    IN  IF i = 0 THEN Idle ELSE [l EXCEPT !.pc = "get_cooldown", !.i = i, !.title = ""]

\* time passes while ticks are in flight
AdvanceSteps == AdvanceTo(MaxStepTime)

\* the deliveries followed call by call
StepOutcomes == {"ok", "timeout"}

\* a schedule tick begins in the first free slot
StartTick(p) ==
    /\ inv[p].pc = "idle"
    /\ \A q \in Invocations : q < p => inv[q].pc # "idle"
    /\ config.slack_webhook_url
    /\ config.offline_alerts_enabled \/ config.threshold_alerts_enabled
    /\ \A c \in Counters(tags) : c < MaxCount
    /\ sink.gone_offline < MaxCount
    /\ inv' = [inv EXCEPT ![p] = IF config.offline_alerts_enabled
                                 THEN [Idle EXCEPT !.pc = "lookup"]
                                 ELSE AfterOffline(Idle)]
    /\ sink' = [sink EXCEPT !.overlapped = @ \/ InFlight # {}]
    /\ UNCHANGED <<Outside, tags>>

\* await self.api.get_agent_connection, then the debounce test
GetConnection(p) ==
    /\ inv[p].pc = "lookup"
    /\ \E lookup_ok \in BOOLEAN :
          inv' = [inv EXCEPT ![p] =
                    IF ~lookup_ok THEN AfterOffline(@)
                    ELSE IF conn.determination = "online"
                    THEN [@ EXCEPT !.pc = "clear_flag"]
                    ELSE IF Debounced(conn.online_at, now,
                                      config.offline_threshold_minutes)
                    THEN AfterOffline(@)
                    ELSE [@ EXCEPT !.pc = "get_alert_sent"]]
    /\ UNCHANGED <<Outside, tags, sink>>

\* await self.set_tag("offline_alert_sent", False)
ClearFlag(p) ==
    /\ inv[p].pc = "clear_flag"
    /\ tags' = set_tag(tags, "offline_alert_sent", Bool(FALSE))
    /\ inv' = [inv EXCEPT ![p].pc = "clear_reminder"]
    /\ UNCHANGED <<Outside, sink>>

\* await self.set_tag("last_offline_reminder", None)
ClearReminder(p) ==
    /\ inv[p].pc = "clear_reminder"
    /\ tags' = set_tag(tags, "last_offline_reminder", None)
    /\ inv' = [inv EXCEPT ![p] = AfterOffline(@)]
    /\ UNCHANGED <<Outside, sink>>

\* alert_sent = await self.get_tag("offline_alert_sent", False)
GetAlertSent(p) ==
    /\ inv[p].pc = "get_alert_sent"
    /\ inv' = [inv EXCEPT ![p].pc = "get_last_reminder",
                          ![p].alert_sent = get_tag(tags, "offline_alert_sent", Bool(FALSE))]
    /\ UNCHANGED <<Outside, tags, sink>>

\* last_reminder = await self.get_tag("last_offline_reminder")
GetLastReminder(p) ==
    /\ inv[p].pc = "get_last_reminder"
    /\ inv' = [inv EXCEPT ![p].pc = "get_device_name",
                          ![p].last_reminder = get_tag(tags, "last_offline_reminder", None)]
    /\ UNCHANGED <<Outside, tags, sink>>

\* await self._get_device_name(), then should_send and message
GetDeviceName(p) ==
    /\ inv[p].pc = "get_device_name"
    /\ \E message \in {OfflineMessage(inv[p].alert_sent,
                                      config.offline_reminder_interval_minutes,
                                      inv[p].last_reminder, now)} :
          inv' = [inv EXCEPT ![p] =
                    IF message = "" THEN AfterOffline(@)
                    ELSE [@ EXCEPT !.pc = "send_offline", !.message = message]]
    /\ UNCHANGED <<Outside, tags, sink>>

\* await self._send_slack_message(title="Device Offline Alert")
SendOffline(p) ==
    /\ inv[p].pc = "send_offline"
    /\ \E outcome \in StepOutcomes :
          tags' = _send_slack_message(Start(tags), "Device Offline Alert",
                                      inv[p].message, 0, now, outcome).tags
    /\ sink' = [sink EXCEPT !.gone_offline =
                   IF inv[p].message = "has gone offline" THEN @ + 1 ELSE @]
    /\ inv' = [inv EXCEPT ![p].pc = "set_alert_sent"]
    /\ UNCHANGED Outside

\* variant: the flag is not written
SetAlertSent_Skipped(p) ==
    /\ inv[p].pc = "set_alert_sent"
    /\ inv' = [inv EXCEPT ![p].pc = "set_last_reminder"]
    /\ UNCHANGED <<Outside, tags, sink>>

\* await self.set_tag("offline_alert_sent", True)
SetAlertSent(p) ==
    /\ inv[p].pc = "set_alert_sent"
    /\ tags' = set_tag(tags, "offline_alert_sent", Bool(TRUE))
    /\ inv' = [inv EXCEPT ![p].pc = "set_last_reminder"]
    /\ UNCHANGED <<Outside, sink>>

\* await self.set_tag("last_offline_reminder", datetime.now().isoformat())
SetLastReminder(p) ==
    /\ inv[p].pc = "set_last_reminder"
    /\ tags' = set_tag(tags, "last_offline_reminder", isoformat(now))
    /\ inv' = [inv EXCEPT ![p].pc = "count_offline"]
    /\ UNCHANGED <<Outside, sink>>

\* await self._increment_stat("offline_alerts_sent")
CountOffline(p) ==
    /\ inv[p].pc = "count_offline"
    /\ tags' = _increment_stat(tags, "offline_alerts_sent", now)
    /\ inv' = [inv EXCEPT ![p] = AfterOffline(@)]
    /\ UNCHANGED <<Outside, sink>>

\* the tag_values aggregate, await self._get_device_name(), now = datetime.now()
Fetch(p) ==
    /\ inv[p].pc = "fetch"
    /\ \E fetch_ok \in BOOLEAN :
       \E tag_values \in IF fetch_ok /\ config.tag_thresholds # <<>>
                         THEN {f \in [Tags -> RawValues] :
                                  \A t \in Tags :
                                      (\A i \in 1..Len(config.tag_thresholds) :
                                          config.tag_thresholds[i].tag_name # t)
                                          => f[t] = None}
                         ELSE {NoValues} :
          inv' = [inv EXCEPT ![p] =
                    IF config.tag_thresholds = <<>> \/ ~fetch_ok THEN Idle
                    ELSE ToNextRule([@ EXCEPT !.now = now, !.tag_values = tag_values])]
    /\ UNCHANGED <<Outside, tags, sink>>

\* last_alert = await self.get_tag(cooldown_key), then the cooldown test, the
\* limit checks and message_template.format, whose KeyError ends the tick
GetCooldown(p) ==
    /\ inv[p].pc = "get_cooldown"
    /\ \E rule \in {config.tag_thresholds[inv[p].i]} :
       \E titles \in {LimitAlerts(rule.upper_limit, rule.lower_limit,
                                  Float(inv[p].tag_values[rule.tag_name]))} :
          inv' = [inv EXCEPT ![p] =
                    IF InCooldown(get_tag(tags, cooldown_key(rule.tag_name), None),
                                  @.now, rule.cooldown_minutes)
                       \/ titles = <<>>
                    THEN ToNextRule(@)
                    ELSE IF FormatRaises(rule.alert_message, ThresholdPlaceholders)
                    THEN Idle
                    ELSE [@ EXCEPT !.pc = "send_threshold", !.title = Head(titles)]]
    /\ UNCHANGED <<Outside, tags, sink>>

\* await self._send_slack_message(title="Threshold Alert: ...")
SendThreshold(p) ==
    /\ inv[p].pc = "send_threshold"
    /\ \E outcome \in StepOutcomes :
          tags' = _send_slack_message(Start(tags), inv[p].title, "threshold",
                                      inv[p].i, now, outcome).tags
    /\ sink' = [sink EXCEPT !.window[config.tag_thresholds[inv[p].i].tag_name] =
                   <<@[2], inv[p].now>>]
    /\ inv' = [inv EXCEPT ![p].pc = "set_cooldown"]
    /\ UNCHANGED Outside

\* await self.set_tag(cooldown_key, now.isoformat())
SetCooldown(p) ==
    /\ inv[p].pc = "set_cooldown"
    /\ tags' = set_tag(tags, cooldown_key(config.tag_thresholds[inv[p].i].tag_name),
                       isoformat(inv[p].now))
    /\ inv' = [inv EXCEPT ![p].pc = "count_threshold"]
    /\ UNCHANGED <<Outside, sink>>

\* await self._increment_stat("threshold_alerts_sent"), then the next rule
CountThreshold(p) ==
    /\ inv[p].pc = "count_threshold"
    /\ tags' = _increment_stat(tags, "threshold_alerts_sent", now)
    /\ inv' = [inv EXCEPT ![p] = ToNextRule(@)]
    /\ UNCHANGED <<Outside, sink>>

\* the platform cancels the tick, or its time limit ends it, at the call it
\* is waiting on
Cancel(p) ==
    /\ inv[p].pc # "idle"
    /\ inv' = [inv EXCEPT ![p] = Idle]
    /\ UNCHANGED <<Outside, tags, sink>>

\* one awaited call of the tick in slot p returns
Step(p) ==
    \/ GetConnection(p)
    \/ ClearFlag(p)
    \/ ClearReminder(p)
    \/ GetAlertSent(p)
    \/ GetLastReminder(p)
    \/ GetDeviceName(p)
    \/ SendOffline(p)
    \/ SetAlertSent(p)
    \/ SetLastReminder(p)
    \/ CountOffline(p)
    \/ Fetch(p)
    \/ GetCooldown(p)
    \/ SendThreshold(p)
    \/ SetCooldown(p)
    \/ CountThreshold(p)

\* a deployment with both scheduled checks: no reminders, one rule
StepConfigs ==
    {[BaseConfig EXCEPT !.offline_alerts_enabled = TRUE,
                        !.offline_reminder_interval_minutes = 0,
                        !.threshold_alerts_enabled = TRUE,
                        !.tag_thresholds = <<RuleA>>]}

\* the device stays as it is: online, or offline with or without a
\* last-online time
InitSteps ==
    InitWith(StepConfigs,
             {Online} \cup {[determination |-> "offline", online_at |-> t] :
                               t \in {None, IsoStr(1)}})

\* ticks may overlap
NextOverlap ==
    \/ \E p \in Invocations : StartTick(p)
    \/ \E p \in Invocations : Step(p)
    \/ AdvanceSteps

SpecOverlap == InitSteps /\ [][NextOverlap]_vars

\* ticks run one at a time and may be cancelled
NextCancel ==
    \/ \E p \in Invocations : InFlight = {} /\ StartTick(p)
    \/ \E p \in Invocations : Step(p)
    \/ \E p \in Invocations : Cancel(p)
    \/ AdvanceSteps

SpecCancel == InitSteps /\ [][NextCancel]_vars

----------------------------------------------------------------------------
(* A device that stays offline, with the schedule and the clock running *)

\* offline alerts enabled, a webhook configured, reminders off or on
LiveConfigs ==
    {[BaseConfig EXCEPT !.offline_alerts_enabled = TRUE,
                        !.offline_reminder_interval_minutes = ri] :
        ri \in ReminderIntervals}

\* the device is offline from the start, with or without a last-online time
InitLive ==
    InitWith(LiveConfigs,
             {[determination |-> "offline", online_at |-> t] : t \in {None, IsoStr(1)}})

\* a schedule tick whose connection lookup succeeds
TickWithLookup == OnSchedule /\ last'.offline # "lookup_failed"

\* the schedule keeps firing ticks whose lookup succeeds, and the clock keeps
\* advancing (up to MaxTime)
SpecLive ==
    /\ InitLive
    /\ [][NextThreshold]_vars
    /\ WF_vars(TickWithLookup)
    /\ WF_vars(Advance)

----------------------------------------------------------------------------
(* Properties of offline monitoring, checked under Spec *)

\* the tick that just returned ran the offline check and the lookup reported
\* the device offline
OfflineTick ==
    /\ last.op = "on_schedule"
    /\ last.conn.determination = "offline"

\* ... with a last-online time less than the threshold before the clock reading
WithinThreshold ==
    /\ OfflineTick
    /\ last.conn.online_at # None
    /\ last.t123 - last.conn.online_at.v
          < config.offline_threshold_minutes * UnitsPerMinute

\* ... with a last-online time at least the threshold before the clock reading
PastThreshold ==
    /\ OfflineTick
    /\ last.conn.online_at # None
    /\ last.t123 - last.conn.online_at.v
          >= config.offline_threshold_minutes * UnitsPerMinute

SentOffline == OfflineAlerts(last.alerts)

OfflineKeysUnchanged ==
    /\ tags["offline_alert_sent"] = last.pre["offline_alert_sent"]
    /\ tags["last_offline_reminder"] = last.pre["last_offline_reminder"]

\* C1: after a schedule tick whose connection lookup reported "online",
\* offline_alert_sent is False and last_offline_reminder is None, whatever the
\* two tags held before the tick.
C1_OnlineTickClearsOfflineTracking ==
    (last.op = "on_schedule" /\ last.conn.determination = "online")
        => /\ tags["offline_alert_sent"] = Bool(FALSE)
           /\ tags["last_offline_reminder"] = None

C1_Witness ==
    /\ last.op = "on_schedule"
    /\ last.conn.determination = "online"
    /\ last.pre["offline_alert_sent"] = Bool(TRUE)
    /\ last.pre["last_offline_reminder"] # None

\* C2: on a tick where the device is offline and less than
\* offline_threshold_minutes have passed since its last-online time, no offline
\* alert is sent and offline_alert_sent / last_offline_reminder keep their
\* values, whatever they are.
C2_DebounceIsSilent ==
    WithinThreshold => (SentOffline = <<>> /\ OfflineKeysUnchanged)

C2_Witness ==
    /\ WithinThreshold
    /\ last.t123 > last.conn.online_at.v
    /\ last.pre["offline_alert_sent"] = Bool(TRUE)

\* C3: on a tick where the device is offline for at least the threshold and
\* offline_alert_sent is not set, exactly one "has gone offline" alert is sent,
\* and afterwards offline_alert_sent is True and last_offline_reminder holds the
\* clock reading taken when it is written.
C3_FirstOfflineAlert ==
    (PastThreshold /\ ~Truthy(last.pre["offline_alert_sent"]))
        => /\ Len(SentOffline) = 1
           /\ SentOffline[1].message = "has gone offline"
           /\ tags["offline_alert_sent"] = Bool(TRUE)
           /\ tags["last_offline_reminder"] = IsoStr(last.t161)

C3_Witness ==
    /\ PastThreshold
    /\ ~Truthy(last.pre["offline_alert_sent"])
    /\ Len(SentOffline) = 1
    /\ last.t161 > last.t123

\* the tick went past the debounce test with offline_alert_sent set
AlertedBefore ==
    /\ OfflineTick
    /\ last.offline \in {"silent", "alerted"}
    /\ Truthy(last.pre["offline_alert_sent"])

\* the reminder condition, from the values the tick read
ReminderCondition ==
    /\ config.offline_reminder_interval_minutes > 0
    /\ last.pre["last_offline_reminder"] # None
    /\ last.t148 - last.pre["last_offline_reminder"].v
          >= config.offline_reminder_interval_minutes * UnitsPerMinute

\* C4: on a tick where the device is offline past the threshold and
\* offline_alert_sent is set, a "still offline" reminder is sent exactly when
\* the interval is positive, last_offline_reminder is set and at least the
\* interval has passed since it; then exactly one reminder is sent and
\* last_offline_reminder becomes the current time, otherwise it is unchanged.
\* Two successive offline alerts of one episode are at least the interval apart.
C4_ReminderGating ==
    /\ AlertedBefore =>
          /\ (SentOffline # <<>>) <=> ReminderCondition
          /\ ReminderCondition =>
                /\ Len(SentOffline) = 1
                /\ SentOffline[1].message = "is still offline"
                /\ tags["last_offline_reminder"] = IsoStr(last.t161)
          /\ ~ReminderCondition => OfflineKeysUnchanged
    /\ episode.alerts >= 2 =>
          episode.last_at - episode.prev_at
              >= config.offline_reminder_interval_minutes * UnitsPerMinute

C4_Witness ==
    /\ AlertedBefore
    /\ ReminderCondition
    /\ Len(SentOffline) = 1
    /\ episode.alerts >= 2
    /\ last.t148 - last.pre["last_offline_reminder"].v
          = config.offline_reminder_interval_minutes * UnitsPerMinute

\* C5: with offline_reminder_interval_minutes = 0, an offline episode gets no
\* offline alert after its first one, however many ticks follow.
C5_NoReminderWhenDisabled ==
    config.offline_reminder_interval_minutes = 0 => episode.alerts <= 1

C5_Witness ==
    /\ config.offline_reminder_interval_minutes = 0
    /\ episode.alerts = 1
    /\ AlertedBefore
    /\ SentOffline = <<>>
    /\ last.t148 - last.pre["last_offline_reminder"].v >= 2 * UnitsPerMinute

----------------------------------------------------------------------------
(* Properties of threshold alerts, checked under SpecThreshold *)

\* the tick that just returned entered the loop over the rules
ThresholdTick == last.op = "on_schedule" /\ last.threshold = "checked"

RuleCount == Len(config.tag_thresholds)
RuleAt(i) == config.tag_thresholds[i]

\* the alerts rule i handed to the sink in the tick
RuleAlerts(i) == SelectSeq(last.alerts, LAMBDA a : a.rule = i)
TagAlerted(tag) ==
    \E i \in 1..RuleCount : RuleAt(i).tag_name = tag /\ RuleAlerts(i) # <<>>

\* rule i has no tag name, or its tag has no value or a value that is no number
Malformed(i) ==
    \/ RuleAt(i).tag_name = ""
    \/ last.tag_values[RuleAt(i).tag_name].kind \in {"none", "junk"}

ValueOf(i) == last.tag_values[RuleAt(i).tag_name].v
AboveUpper(i) == RuleAt(i).upper_limit # None /\ ValueOf(i) > RuleAt(i).upper_limit.v
BelowLower(i) == RuleAt(i).lower_limit # None /\ ValueOf(i) < RuleAt(i).lower_limit.v
TemplateFormats(i) == RuleAt(i).alert_message \subseteq {"tag", "value", "limit", "device"}

\* rule i is the first rule of the list on its tag, so the cooldown it reads
\* is the one stored before the tick
FirstOnTag(i) == \A j \in 1..(i - 1) : RuleAt(j).tag_name # RuleAt(i).tag_name
StoredCooldown(i) == last.pre[cooldown_key(RuleAt(i).tag_name)]
CoolingDown(i) ==
    /\ StoredCooldown(i) # None
    /\ last.t182 - StoredCooldown(i).v < RuleAt(i).cooldown_minutes * UnitsPerMinute

\* C6: a rule sends at most one alert per tick; when its limits are evaluated
\* and the value is above the upper limit it sends exactly one "High Value"
\* alert, even if the value is also below the lower limit; a "Low Value" alert
\* is sent only when the upper check did not fire and the value is below the
\* lower limit.
C6_UpperTakesPriority ==
    ThresholdTick =>
        \A i \in 1..RuleCount :
            /\ Len(RuleAlerts(i)) <= 1
            /\ (i <= Len(last.rules) /\ last.rules[i] \in {"alerted", "within_limits"}) =>
                  /\ AboveUpper(i) =>
                        /\ Len(RuleAlerts(i)) = 1
                        /\ RuleAlerts(i)[1].title = "Threshold Alert: High Value"
                  /\ (~AboveUpper(i) /\ BelowLower(i)) =>
                        /\ Len(RuleAlerts(i)) = 1
                        /\ RuleAlerts(i)[1].title = "Threshold Alert: Low Value"
                  /\ (~AboveUpper(i) /\ ~BelowLower(i)) => RuleAlerts(i) = <<>>

C6_Witness ==
    /\ ThresholdTick
    /\ \E i \in 1..Len(last.rules) :
          /\ ~Malformed(i)
          /\ AboveUpper(i) /\ BelowLower(i)
          /\ Len(RuleAlerts(i)) = 1
          /\ RuleAlerts(i)[1].title = "Threshold Alert: High Value"
    /\ \E i \in 1..Len(last.rules) :
          /\ ~Malformed(i)
          /\ Len(RuleAlerts(i)) = 1
          /\ RuleAlerts(i)[1].title = "Threshold Alert: Low Value"

\* C7 as stated: a rule whose tag's cooldown is in force is skipped, and two
\* ticks less than the rule's cooldownMinutes apart produce at most one alert
\* in total for the same tag.
C7_AtMostOneAlertPerTag ==
    ThresholdTick =>
        \A i \in 1..RuleCount : RuleAlerts(i) # <<>> =>
            \A j \in 1..RuleCount : RuleAt(j).tag_name = RuleAt(i).tag_name =>
                /\ (j # i => RuleAlerts(j) = <<>>)
                /\ last.fired[j] > 0 =>
                      /\ last.t182 - last.fired[j]
                            >= RuleAt(i).cooldown_minutes * UnitsPerMinute
                      /\ last.t182 - last.fired[j]
                            >= RuleAt(j).cooldown_minutes * UnitsPerMinute

\* C7 amended: a rule whose tag's cooldown is in force is skipped (it sends
\* nothing and, unless another rule of the same tag alerts, the cooldown time
\* stays as it was), and two ticks less than the rule's cooldownMinutes apart
\* produce at most one alert in total from that rule.
C7_AtMostOneAlertPerRule ==
    ThresholdTick =>
        \A i \in 1..RuleCount :
            /\ (i <= Len(last.rules) /\ FirstOnTag(i) /\ ~Malformed(i) /\ CoolingDown(i)) =>
                  /\ RuleAlerts(i) = <<>>
                  /\ ~TagAlerted(RuleAt(i).tag_name) =>
                        tags[cooldown_key(RuleAt(i).tag_name)] = StoredCooldown(i)
            /\ RuleAlerts(i) # <<>> =>
                  /\ Len(RuleAlerts(i)) = 1
                  /\ last.fired[i] > 0 =>
                        last.t182 - last.fired[i]
                            >= RuleAt(i).cooldown_minutes * UnitsPerMinute

C7_Witness ==
    /\ ThresholdTick
    /\ \E i \in 1..Len(last.rules) :
          /\ FirstOnTag(i) /\ ~Malformed(i) /\ CoolingDown(i)
          /\ AboveUpper(i)
          /\ last.t182 > StoredCooldown(i).v
          /\ RuleAlerts(i) = <<>>
          /\ last.fired[i] > 0

\* C8: a rule with no tag name, with a tag that has no value or with a value
\* that is no number sends no alert and raises nothing; the next rule is
\* evaluated; the counter grows by the number of alerts sent and only a tag
\* that alerted gets a new cooldown time.
C8_MalformedRuleIsSkipped ==
    ThresholdTick =>
        /\ \A i \in 1..Len(last.rules) : Malformed(i) =>
              /\ RuleAlerts(i) = <<>>
              /\ last.rules[i] \in {"no_tag_name", "tag_not_found", "not_numeric"}
              /\ i < RuleCount => Len(last.rules) > i
        /\ get_tag(tags, "threshold_alerts_sent", Num(0)).v
              = get_tag(last.pre, "threshold_alerts_sent", Num(0)).v + Len(last.alerts)
        /\ \A tag \in Tags : ~TagAlerted(tag) =>
              tags[cooldown_key(tag)] = last.pre[cooldown_key(tag)]
        /\ (\A i \in 1..RuleCount : i <= Len(last.rules) /\ Malformed(i)) =>
              /\ ~last.raised
              /\ last.alerts = <<>>
              /\ \A k \in Tracked : tags[k] = last.pre[k]

C8_Witness ==
    /\ ThresholdTick
    /\ RuleCount = 2
    /\ Len(last.rules) = 2
    /\ Malformed(1)
    /\ last.tag_values["b"] = Junk
    /\ ~Malformed(2)
    /\ RuleAlerts(2) # <<>>

\* C9: cooldowns are kept per tag: a tag none of whose rules alerted keeps its
\* cooldown time whatever happened to other tags, and whether the first rule
\* on a tag alerts is decided by that tag's value and cooldown time alone.
C9_CooldownPerTag ==
    ThresholdTick =>
        /\ \A tag \in Tags : ~TagAlerted(tag) =>
              tags[cooldown_key(tag)] = last.pre[cooldown_key(tag)]
        /\ \A i \in 1..Len(last.rules) : FirstOnTag(i) =>
              (RuleAlerts(i) # <<>>
                  <=> /\ ~Malformed(i)
                      /\ ~CoolingDown(i)
                      /\ AboveUpper(i) \/ BelowLower(i)
                      /\ TemplateFormats(i))

C9_Witness ==
    /\ ThresholdTick
    /\ RuleCount = 2
    /\ RuleAt(1).tag_name # RuleAt(2).tag_name
    /\ RuleAlerts(1) # <<>>
    /\ RuleAlerts(2) # <<>>
    /\ last.pre[cooldown_key(RuleAt(1).tag_name)] # None
    /\ last.pre[cooldown_key(RuleAt(1).tag_name)]
          # last.pre[cooldown_key(RuleAt(2).tag_name)]

----------------------------------------------------------------------------
(* Properties of both checks together, checked under SpecBoth *)

\* C10: when an offline or threshold alert is sent and its delivery fails, the
\* bookkeeping is written all the same: offline_alert_sent is True and
\* last_offline_reminder is the current time, the tag's cooldown time is the
\* time of the tick; so a later tick does not send the alert again before the
\* reminder interval or the rule's cooldown has passed, delivered or not.
C10_BookkeepingDespiteFailedSend ==
    /\ last.op = "on_schedule" =>
          \A k \in 1..Len(last.alerts) : last.alerts[k].outcome # "ok" =>
              IF last.alerts[k].title = "Device Offline Alert"
              THEN /\ tags["offline_alert_sent"] = Bool(TRUE)
                   /\ tags["last_offline_reminder"] = IsoStr(last.t161)
              ELSE tags[cooldown_key(RuleAt(last.alerts[k].rule).tag_name)]
                      = IsoStr(last.t182)
    /\ episode.alerts >= 2 =>
          /\ config.offline_reminder_interval_minutes > 0
          /\ episode.last_at - episode.prev_at
                >= config.offline_reminder_interval_minutes * UnitsPerMinute
    /\ ThresholdTick =>
          \A i \in 1..RuleCount : (RuleAlerts(i) # <<>> /\ last.fired[i] > 0) =>
              last.t182 - last.fired[i] >= RuleAt(i).cooldown_minutes * UnitsPerMinute

C10_Witness ==
    /\ last.op = "on_schedule"
    /\ Len(last.alerts) >= 2
    /\ \E k \in 1..Len(last.alerts) :
          /\ last.alerts[k].title = "Device Offline Alert"
          /\ last.alerts[k].outcome = "timeout"
    /\ \E k \in 1..Len(last.alerts) :
          /\ last.alerts[k].title # "Device Offline Alert"
          /\ last.alerts[k].outcome = "http_error"
    /\ tags["last_error"] # None

----------------------------------------------------------------------------
(* Delivery failures, checked under SpecThreshold *)

\* the text _send_slack_message records for a failed delivery
RecordedError(outcome) ==
    IF outcome = "http_error" THEN "Slack API error"
    ELSE IF outcome = "timeout" THEN "Slack request timeout"
    ELSE "Slack request failed"

\* the decision of rule i from its own inputs, for the first rule on a tag
ShouldAlert(i) ==
    /\ ~Malformed(i)
    /\ ~CoolingDown(i)
    /\ AboveUpper(i) \/ BelowLower(i)
    /\ TemplateFormats(i)

\* C11: a failed delivery (timeout, transport error, non-200) is recorded in
\* last_error / last_error_at, does not raise out of the send, and does not
\* stop the loop: the rules after it are still evaluated and send their alerts.
C11_FailedSendIsRecordedAndIsolated ==
    ThresholdTick =>
        \A k \in 1..Len(last.alerts) : last.alerts[k].outcome # "ok" =>
            /\ last.rules[last.alerts[k].rule] = "alerted"
            /\ tags["last_error"].kind \in
                  {RecordedError(last.alerts[j].outcome) :
                      j \in {n \in k..Len(last.alerts) : last.alerts[n].outcome # "ok"}}
            /\ tags["last_error_at"].kind = "isostr"
            /\ tags["last_error_at"].v >= last.alerts[k].at
            /\ \A i \in (last.alerts[k].rule + 1)..RuleCount :
                  /\ i <= Len(last.rules)
                  /\ FirstOnTag(i) => (RuleAlerts(i) # <<>> <=> ShouldAlert(i))

C11_Witness ==
    /\ ThresholdTick
    /\ Len(last.alerts) = 2
    /\ last.alerts[1].rule = 1
    /\ last.alerts[1].outcome = "timeout"
    /\ last.alerts[2].rule = 2
    /\ last.alerts[2].outcome = "ok"
    /\ FirstOnTag(2)
    /\ tags["last_error"].kind = "Slack request timeout"

----------------------------------------------------------------------------
(* Lookup failures, checked under SpecBoth *)

\* C12: when the connection lookup fails, the offline check of the tick ends
\* with no alert and with offline_alert_sent and last_offline_reminder as they
\* were, and the threshold check of the same tick still runs.
C12_LookupFailureSkipsOfflineCheckOnly ==
    (last.op = "on_schedule" /\ last.offline = "lookup_failed") =>
        /\ SentOffline = <<>>
        /\ OfflineKeysUnchanged
        /\ ~last.raised
        /\ last.threshold \in {"checked", "fetch_failed"}
        /\ last.threshold = "checked" =>
              /\ Len(last.rules) = RuleCount
              /\ RuleAlerts(1) # <<>> <=> ShouldAlert(1)

C12_Witness ==
    /\ last.op = "on_schedule"
    /\ last.offline = "lookup_failed"
    /\ last.pre["offline_alert_sent"] = Bool(TRUE)
    /\ last.threshold = "checked"
    /\ RuleAlerts(1) # <<>>

----------------------------------------------------------------------------
(* Channel messages, checked under SpecMessage *)

ChannelStatKeys == {"channel_alerts_sent", stat_last_key("channel_alerts_sent")}

ErrorKeys == {"last_error", "last_error_at"}

ChannelReady == config.channel_alerts_enabled /\ config.slack_webhook_url

ChannelFormats == ~FormatRaises(config.channel_message_template, ChannelPlaceholders)

\* the message event that ends in the next state left every key outside `keys`
\* as it was
MessageChangesOnly(keys) == \A k \in Keys \ keys : tags'[k] = tags[k]

\* the message event sent exactly one notification, titled "Channel Alert",
\* and counted it
OneChannelAlert ==
    /\ Len(last'.alerts) = 1
    /\ last'.alerts[1].title = "Channel Alert"
    /\ tags'["channel_alerts_sent"] = Num(get_tag(tags, "channel_alerts_sent", Num(0)).v + 1)

\* C13 as stated: a message event sends no offline or threshold alert and
\* leaves the offline and cooldown keys alone; with channel alerts enabled and
\* a webhook it sends exactly one "Channel Alert" and changes only the
\* channel_alerts_sent statistics; otherwise it sends nothing and changes no
\* state.
C13_MessageChangesOnlyChannelStats ==
    [][last'.op = "on_message_create" =>
          IF ChannelReady
          THEN OneChannelAlert /\ MessageChangesOnly(ChannelStatKeys)
          ELSE last'.alerts = <<>> /\ tags' = tags]_vars

\* C13, amended: a message event sends no offline or threshold alert and
\* leaves offline_alert_sent, last_offline_reminder and the cooldown keys alone.
\* With channel alerts enabled, a webhook and a template that formats, it sends
\* exactly one "Channel Alert" and changes only the channel_alerts_sent
\* statistics and, when the delivery fails, last_error and last_error_at.
\* With a template that names an unknown placeholder, with channel alerts
\* disabled or without a webhook, it sends nothing and changes no state.
C13_MessageChangesChannelStatsAndError ==
    [][last'.op = "on_message_create" =>
          /\ MessageChangesOnly(ChannelStatKeys \cup ErrorKeys)
          /\ \A k \in 1..Len(last'.alerts) : last'.alerts[k].title = "Channel Alert"
          /\ IF ChannelReady /\ ChannelFormats
             THEN /\ OneChannelAlert
                  /\ IF last'.alerts[1].outcome = "ok"
                     THEN MessageChangesOnly(ChannelStatKeys)
                     ELSE /\ tags'["last_error"].kind = RecordedError(last'.alerts[1].outcome)
                          /\ tags'["last_error_at"] = isoformat(last'.alerts[1].at)
             ELSE last'.alerts = <<>> /\ tags' = tags]_vars

C13_Witness ==
    /\ last.op = "on_message_create"
    /\ Len(last.alerts) = 1
    /\ last.alerts[1].outcome = "http_error"
    /\ tags["last_error_at"] = isoformat(last.alerts[1].at)
    /\ tags[cooldown_key("a")] # None
    /\ tags["channel_alerts_sent"].v = 2

----------------------------------------------------------------------------
(* Template errors, checked under SpecThreshold *)

\* C14: a template-formatting error raised for one threshold rule affects that
\* alert only: the invocation is not aborted, every rule of the list is
\* evaluated, and the rules after the failing one alert exactly when their own
\* inputs say so.
C14_TemplateErrorIsIsolated ==
    ThresholdTick =>
        \A i \in 1..Len(last.rules) : last.rules[i] = "raised" =>
            /\ ~last.raised
            /\ Len(last.rules) = RuleCount
            /\ \A j \in (i + 1)..RuleCount :
                  FirstOnTag(j) => (RuleAlerts(j) # <<>> <=> ShouldAlert(j))

----------------------------------------------------------------------------
(* Statistics counters, checked under SpecMessage *)

\* the counter of the class an alert belongs to
StatKeyOf(alert) ==
    IF alert.title = "Channel Alert" THEN "channel_alerts_sent"
    ELSE IF alert.title = "Device Offline Alert" THEN "offline_alerts_sent"
    ELSE "threshold_alerts_sent"

AlertsOfClass(alerts, stat_name) == SelectSeq(alerts, LAMBDA a : StatKeyOf(a) = stat_name)

Delivered(alerts) == SelectSeq(alerts, LAMBDA a : a.outcome = "ok")

CounterValue(tg, stat_name) == get_tag(tg, stat_name, Num(0)).v

\* C15 as stated: every counter is absent (read as 0) at the start and every
\* step adds to it the number of alerts of its class that the step delivered
\* successfully, so each counter equals the number of alerts of its class sent
\* successfully.
C15_CountersCountDeliveredAlerts ==
    [][\A s \in StatNames :
          CounterValue(tags', s)
              = CounterValue(tags, s) + Len(Delivered(AlertsOfClass(last'.alerts, s)))]_vars

\* C15, amended: every counter is absent (read as 0) at the start and every
\* step adds to it the number of alerts of its class that the step handed to
\* the webhook, delivered or not, so each counter equals the number of alerts
\* of its class that were sent, successfully or not.
C15_CountersCountSentAlerts ==
    [][\A s \in StatNames :
          CounterValue(tags', s)
              = CounterValue(tags, s) + Len(AlertsOfClass(last'.alerts, s))]_vars

C15_Witness ==
    /\ last.op = "on_schedule"
    /\ Len(last.alerts) = 1
    /\ last.alerts[1].outcome = "timeout"
    /\ CounterValue(tags, StatKeyOf(last.alerts[1])) = 2
    /\ CounterValue(tags, "channel_alerts_sent") = 1

----------------------------------------------------------------------------
(* Further properties of offline monitoring, checked under Spec *)

\* the tick that just returned found the device offline with no last-online time
NoTimestamp == OfflineTick /\ ~Truthy(last.conn.online_at)

\* C16: on a tick that finds the device offline with no last-online time, the
\* debounce test is skipped: with offline_alert_sent not set the "has gone
\* offline" alert is sent at once, and with offline_alert_sent set a reminder
\* is sent exactly when the reminder condition holds, as with a timestamp.
C16_NoTimestampSkipsDebounce ==
    NoTimestamp =>
        /\ last.offline \in {"silent", "alerted"}
        /\ ~Truthy(last.pre["offline_alert_sent"]) =>
              /\ Len(SentOffline) = 1
              /\ SentOffline[1].message = "has gone offline"
              /\ tags["offline_alert_sent"] = Bool(TRUE)
              /\ tags["last_offline_reminder"] = IsoStr(last.t161)
        /\ Truthy(last.pre["offline_alert_sent"]) =>
              /\ (SentOffline # <<>>) <=> ReminderCondition
              /\ ReminderCondition =>
                    /\ Len(SentOffline) = 1
                    /\ SentOffline[1].message = "is still offline"
                    /\ tags["last_offline_reminder"] = IsoStr(last.t161)
              /\ ~ReminderCondition => OfflineKeysUnchanged

C16_Witness ==
    /\ NoTimestamp
    /\ Truthy(last.pre["offline_alert_sent"])
    /\ ReminderCondition
    /\ Len(SentOffline) = 1
    /\ episode.alerts = 2

----------------------------------------------------------------------------
(* Overlapping and cancelled ticks, checked under SpecOverlap and SpecCancel *)

\* an offline episode got at most one "has gone offline" alert, and the latest
\* two threshold alerts of a tag come from ticks at least the cooldown apart
NoDuplicateAlert ==
    /\ sink.gone_offline <= 1
    /\ \A i \in 1..RuleCount :
          sink.window[RuleAt(i).tag_name][1] > 0 =>
              sink.window[RuleAt(i).tag_name][2] - sink.window[RuleAt(i).tag_name][1]
                  >= RuleAt(i).cooldown_minutes * UnitsPerMinute

\* C17: offline_alert_sent and threshold_cooldown_<tag> are read and written
\* in separate calls; as long as no tick started while another was in flight
\* no alert is duplicated, while overlapping ticks can both read the key as
\* unset and both send (the witness).
C17_OnlyOverlappingTicksDuplicate == ~sink.overlapped => NoDuplicateAlert

C17_Witness ==
    /\ sink.overlapped
    /\ sink.gone_offline = 2
    /\ sink.window["a"][1] > 0
    /\ sink.window["a"][2] - sink.window["a"][1] < UnitsPerMinute
    /\ tags["offline_alert_sent"] = Bool(TRUE)
    /\ tags[cooldown_key("a")] # None
    /\ InFlight = {}

\* C18: when ticks run one at a time and a tick is cancelled at any of its
\* awaited calls, an alert that was delivered before the cancellation is not
\* delivered again by a later tick for the same offline episode or for the same
\* tag within its cooldown (no delivery has failed: last_error is not set).
C18_CancelledTickDoesNotRedeliver ==
    tags["last_error"] = None => NoDuplicateAlert

----------------------------------------------------------------------------
(* The offline keys between ticks, checked under Spec *)

\* C19: between completed ticks, offline_alert_sent set implies that
\* last_offline_reminder holds a time; so on a tick past the debounce test with
\* the flag set and a positive interval, the reminder is decided by the time
\* since last_offline_reminder alone.
C19_AlertedImpliesReminderSet ==
    /\ Truthy(tags["offline_alert_sent"]) =>
          /\ tags["last_offline_reminder"].kind = "isostr"
          /\ tags["last_offline_reminder"].v <= now
    /\ (AlertedBefore /\ config.offline_reminder_interval_minutes > 0) =>
          /\ last.pre["last_offline_reminder"] # None
          /\ (SentOffline # <<>>) <=>
                last.t148 - last.pre["last_offline_reminder"].v
                    >= config.offline_reminder_interval_minutes * UnitsPerMinute

C19_Witness ==
    /\ OfflineTick
    /\ last.pre["offline_alert_sent"] = Bool(FALSE)
    /\ last.pre["last_offline_reminder"] = None
    /\ tags["offline_alert_sent"] = Bool(TRUE)
    /\ tags["last_offline_reminder"] = IsoStr(last.t161)
    /\ config.offline_reminder_interval_minutes > 0

\* the step ends a tick that sent a "has gone offline" alert
SendsGoneOffline ==
    /\ last'.op = "on_schedule"
    /\ \E k \in 1..Len(last'.alerts) : last'.alerts[k].message = "has gone offline"

\* C20: a "has gone offline" alert is sent only with offline_alert_sent not
\* set, and sets it; once set, the flag is reset only by a tick that observed
\* the device online.  So between two "has gone offline" alerts there is such
\* a tick, and a device that reconnects and drops again unobserved gets no
\* second "has gone offline" alert; after a reset the next offline episode
\* does get one.
C20_RearmedOnlyByOnlineTick ==
    [][/\ SendsGoneOffline =>
             /\ ~Truthy(tags["offline_alert_sent"])
             /\ Truthy(tags'["offline_alert_sent"])
       /\ (Truthy(tags["offline_alert_sent"]) /\ ~Truthy(tags'["offline_alert_sent"])) =>
             /\ last'.op = "on_schedule"
             /\ last'.conn.determination = "online"
       /\ (last'.op = "on_schedule" /\ last'.offline \in {"silent", "alerted"}
             /\ tags["offline_alert_sent"] = Bool(FALSE)) => SendsGoneOffline]_vars

C20_Witness ==
    /\ OfflineTick
    /\ last.pre["offline_alert_sent"] = Bool(FALSE)
    /\ Len(SentOffline) = 1
    /\ SentOffline[1].message = "has gone offline"
    /\ tags["offline_alerts_sent"].v >= 2
    /\ episode.alerts = 1

----------------------------------------------------------------------------
(* Liveness of offline alerts, checked under SpecLive *)

\* the flag is set, reminders are enabled and the interval has passed since
\* last_offline_reminder (and the counter has not reached its bound)
ReminderOverdue ==
    /\ Truthy(tags["offline_alert_sent"])
    /\ config.offline_reminder_interval_minutes > 0
    /\ tags["last_offline_reminder"] # None
    /\ now - tags["last_offline_reminder"].v
          >= config.offline_reminder_interval_minutes * UnitsPerMinute
    /\ CounterValue(tags, "offline_alerts_sent") < MaxCount

\* the tick that just returned sent a "still offline" reminder
ReminderSent ==
    /\ last.op = "on_schedule"
    /\ Len(SentOffline) = 1
    /\ SentOffline[1].message = "is still offline"

\* C21: with offline alerts enabled, a webhook, the device staying offline,
\* ticks with a successful lookup recurring and the clock advancing, a "has
\* gone offline" alert is eventually sent and offline_alert_sent becomes true;
\* and with a positive reminder interval, every time the interval has passed
\* since the last offline alert a "still offline" reminder is eventually sent.
C21_OfflineAlertAndRemindersEventually ==
    /\ <>(Truthy(tags["offline_alert_sent"]) /\ episode.alerts >= 1)
    /\ ReminderOverdue ~> ReminderSent

C21_Witness ==
    /\ ReminderSent
    /\ config.offline_reminder_interval_minutes > 0
    /\ conn.online_at = IsoStr(1)
    /\ episode.alerts = 2
    /\ tags["last_offline_reminder"] = IsoStr(last.t161)
    /\ ~ReminderOverdue

====
